---------------------------- MODULE Spec2Model ----------------------------
(***************************************************************************)
(* FTP output binding (bindings/ftp/ftp.go): secure path resolution, the   *)
(* per-request merge of the static metadata, and the per-operation FTP     *)
(* session of the four handlers create, list, get and delete.              *)
(*                                                                         *)
(* A Go string that holds a path is a record [abs, segs]: whether it       *)
(* starts with a separator, and its separator-delimited elements, so that  *)
(* filepath.Clean, Dir, Base and securejoin.SecureJoin are computed, not   *)
(* assumed.  "" is [abs |-> FALSE, segs |-> <<>>], "." is                  *)
(* [abs |-> FALSE, segs |-> <<".">>], "/" is [abs |-> TRUE, segs |-> <<>>].*)
(***************************************************************************)
EXTENDS Integers, Sequences, FiniteSets, TLC

VARIABLES
    fmeta,   \* f.metadata: the static ftpMetadata set by Init
    inv,     \* per invocation slot: the handler's locals and position
    sess,    \* per invocation slot: the FTP connection c of that invocation
    srv,     \* the remote file system: directories and files
    prev,    \* history: the invocation that returned just before, if a successful create
    gone,    \* history: files removed by a successful delete, not stored since
    last,    \* history: the slot of the invocation whose Stor succeeded last, 0 at first
    harness, \* which harness drives the binding: "seq", "conc" or "pure"
    pin,     \* pure-function harness: the drawn inputs
    pout     \* pure-function harness: the computed output

vars == <<fmeta, inv, sess, srv, prev, gone, last, harness, pin, pout>>

None == "none"

---------------------------------------------------------------------------
(* Strings that hold paths *)

Str(abs, segs) == [abs |-> abs, segs |-> segs]
Rel(segs) == Str(FALSE, segs)
Abs(segs) == Str(TRUE, segs)
Empty == Rel(<<>>)
Dot   == Rel(<<".">>)
Slash == Abs(<<>>)

\* Longest path (in elements) the pure-function harness draws.
MaxSegs == 3

SeqsUpTo(S, n) == UNION {[1..k -> S] : k \in 0..n}

\* filepath.Clean on the elements: drop "" and ".", let ".." remove the
\* element before it, drop ".." at the start of a rooted path.
RECURSIVE CleanSegs(_, _, _)
CleanSegs(abs, out, rest) ==
    IF rest = <<>> THEN out
    ELSE LET p == Head(rest) IN
         IF p = "." \/ p = "" THEN CleanSegs(abs, out, Tail(rest))
         ELSE IF p = ".." THEN
              IF out # <<>> /\ out[Len(out)] # ".."
                  THEN CleanSegs(abs, SubSeq(out, 1, Len(out) - 1), Tail(rest))
              ELSE IF abs THEN CleanSegs(abs, out, Tail(rest))
              ELSE CleanSegs(abs, Append(out, p), Tail(rest))
         ELSE CleanSegs(abs, Append(out, p), Tail(rest))

\* filepath.Clean: the empty result of a relative path is ".".
Clean(s) ==
    LET r == CleanSegs(s.abs, <<>>, s.segs) IN
    IF ~s.abs /\ r = <<>> THEN Dot ELSE Str(s.abs, r)

\* string(filepath.Separator) + s
Rooted(segs) == Abs(segs)

\* a + b for a b that starts with a separator
Concat(a, b) == IF a = Empty THEN b ELSE Str(a.abs, a.segs \o b.segs)

\* The component loop of securejoin.SecureJoin with no symlink under root:
\* a component is kept unless the scoped path it leads to cleans to "/",
\* which resets the path built so far.
RECURSIVE SecureJoinLoop(_, _)
SecureJoinLoop(path, rest) ==
    IF rest = <<>> THEN path
    ELSE LET p == Head(rest)
             cleanP == Clean(Rooted(Append(path, p)))
         IN IF cleanP = Slash THEN SecureJoinLoop(<<>>, Tail(rest))
            ELSE SecureJoinLoop(Append(path, p), Tail(rest))

\* securejoin.SecureJoin(root, unsafePath):
\* filepath.Clean(root + filepath.Clean("/" + path))
SecureJoin(root, unsafePath) ==
    Clean(Concat(root, Clean(Rooted(SecureJoinLoop(<<>>, unsafePath.segs)))))

\* filepath.Dir: all but the last element, cleaned.
Dir(s) ==
    IF s.segs = <<>> THEN (IF s.abs THEN Slash ELSE Dot)
    ELSE Clean(Str(s.abs, SubSeq(s.segs, 1, Len(s.segs) - 1)))

\* filepath.Base: the last element; "." for "", "/" for a path of separators.
Base(s) ==
    IF s.segs = <<>> THEN (IF s.abs THEN Slash ELSE Dot)
    ELSE Rel(<<s.segs[Len(s.segs)]>>)

\* The file name joined to the root with filepath.Join, not SecureJoin.
getSecureDirAndFilename_Join(rootPath, filename) ==
    LET root == SecureJoin(Dot, rootPath)
        absPath == Clean(Concat(root, Rooted(filename.segs)))
    IN [absPath |-> absPath, dir |-> Dir(absPath), exactFilename |-> Base(absPath)]

\* The file name joined to the root as configured, without the join of the
\* root to ".".
getSecureDirAndFilename_KeepRoot(rootPath, filename) ==
    LET absPath == SecureJoin(rootPath, filename)
    IN [absPath |-> absPath, dir |-> Dir(absPath), exactFilename |-> Base(absPath)]

\* getSecureDirAndFilename(rootPath, filename), its err == nil result.
getSecureDirAndFilename(rootPath, filename) ==
    LET root == SecureJoin(Dot, rootPath)
        absPath == SecureJoin(root, filename)
    IN [absPath |-> absPath, dir |-> Dir(absPath), exactFilename |-> Base(absPath)]

\* getSecureDir(rootPath, directory), its err == nil result.
getSecureDir(rootPath, directory) ==
    LET root == SecureJoin(Dot, rootPath)
    IN SecureJoin(root, directory)


---------------------------------------------------------------------------
(* Requests and the static metadata *)

\* bindings.InvokeRequest.Metadata, a map[string]string, as its set of
\* <<key, value>> pairs; a lookup of an absent key yields "".
HasKey(md, k) == \E e \in md : e[1] = k
Lookup(md, k) == IF HasKey(md, k) THEN (CHOOSE e \in md : e[1] = k)[2] ELSE Empty

ftpMetadata(rootPath, directory) ==
    [RootPath |-> rootPath, Server |-> "server", Port |-> "port",
     User |-> "user", Password |-> "password", Directory |-> directory]

\* The merge without the val != "" test.
mergeWithRequestMetadata_AnyOverride(metadata, req) ==
    IF HasKey(req.Metadata, "Directory")
        THEN [metadata EXCEPT !.Directory = Lookup(req.Metadata, "Directory")]
        ELSE metadata

\* The merge that reads the key "directory".
mergeWithRequestMetadata_LowerKey(metadata, req) ==
    LET val == Lookup(req.Metadata, "directory")
    IN IF HasKey(req.Metadata, "directory") /\ val # Empty
           THEN [metadata EXCEPT !.Directory = val] ELSE metadata

\* ftpMetadata.mergeWithRequestMetadata: a copy of the receiver whose
\* Directory is the request's "Directory" when that is present and not "".
mergeWithRequestMetadata(metadata, req) ==
    LET merged == metadata
        val == Lookup(req.Metadata, "Directory")
        ok == HasKey(req.Metadata, "Directory")
    IN IF ok /\ val # Empty THEN [merged EXCEPT !.Directory = val] ELSE merged


\* bindings.OperationKind values; "other" stands for any unsupported kind.
CreateOperation == "create"
ListOperation   == "list"
GetOperation    == "get"
DeleteOperation == "delete"

\* Payloads: "q" is a double quote, so the second payload is a quoted string.
Payloads == { <<"x">>, <<"q", "x", "q">> }

\* Filenames the sequential harness sends: absent or empty, plain, with a
\* ".." prefix, in a subdirectory, and ".." alone (which resolves to the root).
FileNames ==
    { Empty, Rel(<<"a">>), Rel(<<"..", "a">>), Rel(<<"reports", "out.txt">>), Rel(<<"..">>) }

FileMetadata ==
    { { <<"Filename", f>> } : f \in FileNames }
    \cup { {}, { <<"filename", Rel(<<"a">>)>> } }

Request(op, md, data) == [Operation |-> op, Metadata |-> md, Data |-> data]

Requests ==
    { Request(CreateOperation, md, d) :
        md \in FileMetadata \cup { { <<"Filename", Rel(<<"a">>)>>, <<"Directory", Rel(<<"reports">>)>> } },
        d \in Payloads }
    \cup { Request(op, md, <<>>) : op \in {GetOperation, DeleteOperation}, md \in FileMetadata }
    \cup { Request(ListOperation, md, <<>>) :
            md \in { {}, { <<"Directory", Rel(<<"reports">>)>> }, { <<"Directory", Empty>> },
                     { <<"directory", Rel(<<"reports">>)>> } } }
    \cup { Request("other", {}, <<>>) }

\* The requests of two invocations that run at the same time.
ConcRequests ==
    { Request(CreateOperation, { <<"Filename", f>> }, d) :
        f \in { Rel(<<"a">>), Rel(<<"reports", "out.txt">>) }, d \in Payloads }
    \cup { Request(op, { <<"Filename", Rel(<<"a">>)>> }, <<>>) : op \in {GetOperation, DeleteOperation} }
    \cup { Request(ListOperation, md, <<>>) : md \in { {}, { <<"Directory", Rel(<<"reports">>)>> } } }

\* rootPath values of the static metadata.
RootPaths == { Abs(<<"srv", "ftp", "data">>), Rel(<<"rootpath">>) }

---------------------------------------------------------------------------
(* The FTP server and the connection of one invocation *)

\* The directory a session is in after login; server paths are element
\* sequences from the server's "/".
Home == <<"home">>

Parent(path) == SubSeq(path, 1, Len(path) - 1)
Last(path) == path[Len(path)]

\* The server path a command argument names in a session whose working
\* directory is cwd.
SrvResolve(cwd, s) == CleanSegs(TRUE, <<>>, (IF s.abs THEN <<>> ELSE cwd) \o s.segs)

RECURSIVE Ancestors(_)
Ancestors(path) == IF path = <<>> THEN { <<>> } ELSE { path } \cup Ancestors(Parent(path))

HasFile(path) == \E f \in srv.files : f[1] = path
FileData(path) == (CHOOSE f \in srv.files : f[1] = path)[2]

RECURSIVE SetToSeq(_)
SetToSeq(S) == IF S = {} THEN <<>> ELSE LET x == CHOOSE x \in S : TRUE IN <<x>> \o SetToSeq(S \ {x})

\* The entries the server returns for a directory, in the server's order.
Listing(path) ==
    SetToSeq({ [Name |-> Last(f[1]), Type |-> "file"] : f \in { g \in srv.files : Parent(g[1]) = path } }
             \cup { [Name |-> Last(d), Type |-> "folder"] : d \in { e \in srv.dirs : e # <<>> /\ Parent(e) = path } })

\* A command the server state allows may still fail (network, permission);
\* one it does not allow fails.
Outcomes(can) == IF can THEN {TRUE, FALSE} ELSE {FALSE}
Why(ok, can) == IF ok THEN "ok" ELSE IF can THEN "fault" ELSE "state"

NoSession == [state |-> "none", cwd |-> <<>>]

---------------------------------------------------------------------------
(* Invocations *)

NoResp == [kind |-> "none"]
NoStream == [kind |-> "none"]

Idle ==
    [pc |-> "idle", req |-> Request("other", {}, <<>>), metadata |-> fmeta,
     filename |-> Empty, absPath |-> Empty, dir |-> Empty, exactFilename |-> Empty,
     r |-> <<>>, res |-> NoStream, entries |-> <<>>,
     resp |-> NoResp, err |-> None, log |-> <<>>]

\* return nil, fmt.Errorf(msg...)
Return(i, msg) == [i EXCEPT !.pc = "done", !.resp = NoResp, !.err = msg]

\* The invocation record with one more command in its log.
Logged(i, cmd, arg, ok, can) ==
    [i EXCEPT !.log = Append(@, [cmd |-> cmd, arg |-> arg, ok |-> ok, why |-> Why(ok, can)])]

\* What the history keeps of a returned invocation: a create that returned a
\* response, with the path it resolved and the payload it was given.
Summary(i) ==
    IF i.pc = "done" /\ i.req.Operation = CreateOperation /\ i.err = None
        THEN [op |-> CreateOperation, ok |-> TRUE, absPath |-> i.absPath, data |-> i.req.Data,
              dir |-> i.dir, mkd |-> \E k \in 1..Len(i.log) : i.log[k].cmd = "MKD"]
        ELSE [op |-> "none", ok |-> FALSE, absPath |-> Empty, data |-> <<>>,
              dir |-> Empty, mkd |-> FALSE]

Procs == {1, 2}


\* The handlers without the filename test.
filenameIsEmpty_Never(filename) == FALSE

\* filename == ""
filenameIsEmpty(filename) == filename = Empty

\* The reader over the payload with surrounding double quotes removed.
NewReader_Unquote(data) ==
    IF Len(data) >= 2 /\ data[1] = "q" /\ data[Len(data)] = "q"
        THEN SubSeq(data, 2, Len(data) - 1) ELSE data

\* strings.NewReader(string(req.Data)): the bytes of the payload, as they are.
NewReader(data) == data

\* What every step but the store leaves alone.
Static == <<fmeta, last, harness, pin, pout>>

\* The dispatch whose delete case calls the get handler.
Invoke_DeleteAsGet(p) ==
    /\ IF harness = "seq" THEN p = 1 /\ inv[p].pc \in {"idle", "done"}
                          ELSE harness = "conc" /\ inv[p].pc = "idle"
    /\ \E req \in (IF harness = "seq" THEN Requests ELSE ConcRequests) :
         LET i == [Idle EXCEPT !.req = req] IN
         inv' = [inv EXCEPT ![p] =
                    CASE req.Operation = CreateOperation -> [i EXCEPT !.pc = "create"]
                      [] req.Operation = ListOperation   -> [i EXCEPT !.pc = "list"]
                      [] req.Operation = GetOperation    -> [i EXCEPT !.pc = "get"]
                      [] req.Operation = DeleteOperation -> [i EXCEPT !.pc = "get"]
                      [] OTHER -> Return(i, "unsupported operation")]
    /\ prev' = Summary(inv[p])
    /\ sess' = [sess EXCEPT ![p] = NoSession]
    /\ UNCHANGED <<srv, gone, Static>>

\* Invoke: the dispatch on req.Operation.  The sequential harness starts an
\* invocation on slot 1 once the one before it has returned; the concurrent
\* harness starts one invocation on each slot, at any time.
Invoke(p) ==
    /\ IF harness = "seq" THEN p = 1 /\ inv[p].pc \in {"idle", "done"}
                          ELSE harness = "conc" /\ inv[p].pc = "idle"
    /\ \E req \in (IF harness = "seq" THEN Requests ELSE ConcRequests) :
         LET i == [Idle EXCEPT !.req = req] IN
         inv' = [inv EXCEPT ![p] =
                    CASE req.Operation = CreateOperation -> [i EXCEPT !.pc = "create"]
                      [] req.Operation = ListOperation   -> [i EXCEPT !.pc = "list"]
                      [] req.Operation = GetOperation    -> [i EXCEPT !.pc = "get"]
                      [] req.Operation = DeleteOperation -> [i EXCEPT !.pc = "delete"]
                      [] OTHER -> Return(i, "unsupported operation")]
    /\ prev' = Summary(inv[p])
    /\ sess' = [sess EXCEPT ![p] = NoSession]
    /\ UNCHANGED <<srv, gone, Static>>

\* The dial with its error dropped.
Dial_Unchecked(p, next) ==
    /\ \E ok \in BOOLEAN :
         LET i == Logged(inv[p], "DIAL", inv[p].metadata.Server, ok, TRUE) IN
         /\ inv' = [inv EXCEPT ![p] = [i EXCEPT !.pc = next]]
         /\ sess' = [sess EXCEPT ![p] = IF ok THEN [state |-> "connected", cwd |-> Home] ELSE @]
    /\ UNCHANGED <<srv, prev, gone, Static>>

\* c, err := ftp.Dial(metadata.Server)
Dial(p, next) ==
    /\ \E ok \in BOOLEAN :
         LET i == Logged(inv[p], "DIAL", inv[p].metadata.Server, ok, TRUE) IN
         /\ inv' = [inv EXCEPT ![p] = IF ok THEN [i EXCEPT !.pc = next]
                                            ELSE Return(i, "connection error")]
         /\ sess' = [sess EXCEPT ![p] = IF ok THEN [state |-> "connected", cwd |-> Home] ELSE @]
    /\ UNCHANGED <<srv, prev, gone, Static>>

\* err = c.Login(metadata.User, metadata.Password)
Login(p, next) ==
    /\ \E ok \in BOOLEAN :
         LET i == Logged(inv[p], "LOGIN", inv[p].metadata.User, ok, TRUE) IN
         /\ inv' = [inv EXCEPT ![p] = IF ok THEN [i EXCEPT !.pc = next]
                                            ELSE Return(i, "login error")]
         /\ sess' = [sess EXCEPT ![p].state = IF ok THEN "auth" ELSE @]
    /\ UNCHANGED <<srv, prev, gone, Static>>

\* The change of directory with its error dropped.
ChangeDir_Unchecked(p, next) ==
    /\ LET path == SrvResolve(sess[p].cwd, inv[p].dir)
           can == path \in srv.dirs
       IN \E ok \in Outcomes(can) :
            LET i == Logged(inv[p], "CWD", inv[p].dir, ok, can) IN
            /\ inv' = [inv EXCEPT ![p] = [i EXCEPT !.pc = next]]
            /\ sess' = [sess EXCEPT ![p].cwd = IF ok THEN path ELSE @]
    /\ UNCHANGED <<srv, prev, gone, Static>>

\* err = c.ChangeDir(dir) of get and delete: an error returns.
ChangeDir(p, next) ==
    /\ LET path == SrvResolve(sess[p].cwd, inv[p].dir)
           can == path \in srv.dirs
       IN \E ok \in Outcomes(can) :
            LET i == Logged(inv[p], "CWD", inv[p].dir, ok, can) IN
            /\ inv' = [inv EXCEPT ![p] = IF ok THEN [i EXCEPT !.pc = next]
                                               ELSE Return(i, "directory change error")]
            /\ sess' = [sess EXCEPT ![p].cwd = IF ok THEN path ELSE @]
    /\ UNCHANGED <<srv, prev, gone, Static>>

---------------------------------------------------------------------------
(* create *)

\* The create that resolves the file name under the merged Directory.
createPrepare_InDirectory(p) ==
    /\ inv[p].pc = "create"
    /\ LET metadata == mergeWithRequestMetadata(fmeta, inv[p].req)
           r == NewReader(inv[p].req.Data)
           filename == Lookup(inv[p].req.Metadata, "Filename")
           i == [inv[p] EXCEPT !.metadata = metadata, !.r = r, !.filename = filename]
       IN IF filenameIsEmpty(filename)
              THEN inv' = [inv EXCEPT ![p] = Return(i, "filename is empty")]
              ELSE \E lerr \in BOOLEAN :
                     LET s == getSecureDirAndFilename(
                                  getSecureDir(fmeta.RootPath, metadata.Directory), filename) IN
                     inv' = [inv EXCEPT ![p] =
                               IF lerr THEN Return(i, "getting directory and file name")
                               ELSE [i EXCEPT !.pc = "createDial", !.absPath = s.absPath,
                                              !.dir = s.dir, !.exactFilename = s.exactFilename]]
    /\ UNCHANGED <<sess, srv, prev, gone, Static>>

\* create up to the dial: the merge, the reader, the file name test and
\* getSecureDirAndFilename(f.metadata.RootPath, filename).
createPrepare(p) ==
    /\ inv[p].pc = "create"
    /\ LET metadata == mergeWithRequestMetadata(fmeta, inv[p].req)
           r == NewReader(inv[p].req.Data)
           filename == Lookup(inv[p].req.Metadata, "Filename")
           i == [inv[p] EXCEPT !.metadata = metadata, !.r = r, !.filename = filename]
       IN IF filenameIsEmpty(filename)
              THEN inv' = [inv EXCEPT ![p] = Return(i, "filename is empty")]
              ELSE \E lerr \in BOOLEAN :
                     LET s == getSecureDirAndFilename(fmeta.RootPath, filename) IN
                     inv' = [inv EXCEPT ![p] =
                               IF lerr THEN Return(i, "getting directory and file name")
                               ELSE [i EXCEPT !.pc = "createDial", !.absPath = s.absPath,
                                              !.dir = s.dir, !.exactFilename = s.exactFilename]]
    /\ UNCHANGED <<sess, srv, prev, gone, Static>>

createDial(p) == inv[p].pc = "createDial" /\ Dial(p, "createLogin")

createLogin(p) == inv[p].pc = "createLogin" /\ Login(p, "createChangeDir")

\* The first change of directory that leads to c.MakeDir(dir) only when the
\* directory is missing, and returns its error otherwise.
createChangeDir_MissingOnly(p) ==
    /\ inv[p].pc = "createChangeDir"
    /\ LET path == SrvResolve(sess[p].cwd, inv[p].dir)
           can == path \in srv.dirs
       IN \E ok \in Outcomes(can) :
            LET i == Logged(inv[p], "CWD", inv[p].dir, ok, can) IN
            /\ inv' = [inv EXCEPT ![p] =
                         IF ok THEN [i EXCEPT !.pc = "createStor"]
                         ELSE IF can THEN Return(i, "directory change error")
                         ELSE [i EXCEPT !.pc = "createMakeDir"]]
            /\ sess' = [sess EXCEPT ![p].cwd = IF ok THEN path ELSE @]
    /\ UNCHANGED <<srv, prev, gone, Static>>

\* The first change of directory followed by c.MakeDir(dir) whatever it returned.
createChangeDir_AlwaysMake(p) ==
    /\ inv[p].pc = "createChangeDir"
    /\ LET path == SrvResolve(sess[p].cwd, inv[p].dir)
           can == path \in srv.dirs
       IN \E ok \in Outcomes(can) :
            LET i == Logged(inv[p], "CWD", inv[p].dir, ok, can) IN
            /\ inv' = [inv EXCEPT ![p] = [i EXCEPT !.pc = "createMakeDir"]]
            /\ sess' = [sess EXCEPT ![p].cwd = IF ok THEN path ELSE @]
    /\ UNCHANGED <<srv, prev, gone, Static>>

\* err = c.ChangeDir(dir); an error leads to c.MakeDir(dir).
createChangeDir(p) ==
    /\ inv[p].pc = "createChangeDir"
    /\ LET path == SrvResolve(sess[p].cwd, inv[p].dir)
           can == path \in srv.dirs
       IN \E ok \in Outcomes(can) :
            LET i == Logged(inv[p], "CWD", inv[p].dir, ok, can) IN
            /\ inv' = [inv EXCEPT ![p] = [i EXCEPT !.pc = IF ok THEN "createStor" ELSE "createMakeDir"]]
            /\ sess' = [sess EXCEPT ![p].cwd = IF ok THEN path ELSE @]
    /\ UNCHANGED <<srv, prev, gone, Static>>

\* The make-directory with its error dropped.
createMakeDir_Unchecked(p) ==
    /\ inv[p].pc = "createMakeDir"
    /\ LET path == SrvResolve(sess[p].cwd, inv[p].dir)
           can == path \notin srv.dirs /\ Parent(path) \in srv.dirs /\ ~HasFile(path)
       IN \E ok \in Outcomes(can) :
            LET i == Logged(inv[p], "MKD", inv[p].dir, ok, can) IN
            /\ inv' = [inv EXCEPT ![p] = [i EXCEPT !.pc = "createChangeDir2"]]
            /\ srv' = IF ok THEN [srv EXCEPT !.dirs = @ \cup {path}] ELSE srv
    /\ UNCHANGED <<sess, prev, gone, Static>>

createMakeDir(p) ==
    /\ inv[p].pc = "createMakeDir"
    /\ LET path == SrvResolve(sess[p].cwd, inv[p].dir)
           can == path \notin srv.dirs /\ Parent(path) \in srv.dirs /\ ~HasFile(path)
       IN \E ok \in Outcomes(can) :
            LET i == Logged(inv[p], "MKD", inv[p].dir, ok, can) IN
            /\ inv' = [inv EXCEPT ![p] = IF ok THEN [i EXCEPT !.pc = "createChangeDir2"]
                                               ELSE Return(i, "directory create error")]
            /\ srv' = IF ok THEN [srv EXCEPT !.dirs = @ \cup {path}] ELSE srv
    /\ UNCHANGED <<sess, prev, gone, Static>>

createChangeDir2(p) == inv[p].pc = "createChangeDir2" /\ ChangeDir(p, "createStor")

\* The Stor with its error dropped.
createStor_Unchecked(p) ==
    /\ inv[p].pc = "createStor"
    /\ LET path == SrvResolve(sess[p].cwd, inv[p].exactFilename)
           can == path \notin srv.dirs
       IN \E ok \in Outcomes(can) :
            LET i == Logged(inv[p], "STOR", inv[p].exactFilename, ok, can) IN
            /\ inv' = [inv EXCEPT ![p] = [i EXCEPT !.pc = "createQuit"]]
            /\ srv' = IF ok THEN [srv EXCEPT !.files = {f \in @ : f[1] # path} \cup {<<path, inv[p].r>>}]
                            ELSE srv
            /\ gone' = IF ok THEN gone \ {path} ELSE gone
            /\ last' = IF ok THEN p ELSE last
    /\ UNCHANGED <<sess, prev, fmeta, harness, pin, pout>>

\* The Stor that sends the reader of the other invocation, if it has one:
\* a reader kept where the invocations share it.
createStor_SharedReader(p) ==
    /\ inv[p].pc = "createStor"
    /\ LET path == SrvResolve(sess[p].cwd, inv[p].exactFilename)
           can == path \notin srv.dirs
           others == { q \in Procs \ {p} : inv[q].r # <<>> }
           r == IF others = {} THEN inv[p].r ELSE inv[CHOOSE q \in others : TRUE].r
       IN \E ok \in Outcomes(can) :
            LET i == Logged(inv[p], "STOR", inv[p].exactFilename, ok, can) IN
            /\ inv' = [inv EXCEPT ![p] = IF ok THEN [i EXCEPT !.pc = "createQuit"]
                                               ELSE Return(i, "store error")]
            /\ srv' = IF ok THEN [srv EXCEPT !.files = {f \in @ : f[1] # path} \cup {<<path, r>>}]
                            ELSE srv
            /\ gone' = IF ok THEN gone \ {path} ELSE gone
            /\ last' = IF ok THEN p ELSE last
    /\ UNCHANGED <<sess, prev, fmeta, harness, pin, pout>>

\* err = c.Stor(exactFilename, r)
createStor(p) ==
    /\ inv[p].pc = "createStor"
    /\ LET path == SrvResolve(sess[p].cwd, inv[p].exactFilename)
           can == path \notin srv.dirs
       IN \E ok \in Outcomes(can) :
            LET i == Logged(inv[p], "STOR", inv[p].exactFilename, ok, can) IN
            /\ inv' = [inv EXCEPT ![p] = IF ok THEN [i EXCEPT !.pc = "createQuit"]
                                               ELSE Return(i, "store error")]
            /\ srv' = IF ok THEN [srv EXCEPT !.files = {f \in @ : f[1] # path} \cup {<<path, inv[p].r>>}]
                            ELSE srv
            /\ gone' = IF ok THEN gone \ {path} ELSE gone
            /\ last' = IF ok THEN p ELSE last
    /\ UNCHANGED <<sess, prev, fmeta, harness, pin, pout>>

\* err = c.Quit(), then the createResponse.
createQuit(p) ==
    /\ inv[p].pc = "createQuit"
    /\ \E ok \in BOOLEAN :
         LET i == Logged(inv[p], "QUIT", "", ok, TRUE) IN
         /\ inv' = [inv EXCEPT ![p] =
                      IF ok THEN [i EXCEPT !.pc = "done",
                                           !.resp = [kind |-> "create", fileName |-> i.absPath]]
                      ELSE Return(i, "quit error")]
         /\ sess' = [sess EXCEPT ![p].state = IF ok THEN "closed" ELSE "broken"]
    /\ UNCHANGED <<srv, prev, gone, Static>>


---------------------------------------------------------------------------
(* list *)

\* The merge that writes the override into the static metadata.
listPrepare_MergeInPlace(p) ==
    /\ inv[p].pc = "list"
    /\ fmeta' = mergeWithRequestMetadata(fmeta, inv[p].req)
    /\ inv' = [inv EXCEPT ![p] = [@ EXCEPT !.pc = "listDial", !.metadata = fmeta']]
    /\ UNCHANGED <<sess, srv, prev, gone, last, harness, pin, pout>>

\* metadata, err := f.metadata.mergeWithRequestMetadata(req)
listPrepare(p) ==
    /\ inv[p].pc = "list"
    /\ inv' = [inv EXCEPT ![p] = [@ EXCEPT !.pc = "listDial",
                                           !.metadata = mergeWithRequestMetadata(fmeta, inv[p].req)]]
    /\ UNCHANGED <<sess, srv, prev, gone, Static>>

listDial(p) == inv[p].pc = "listDial" /\ Dial(p, "listLogin")

listLogin(p) == inv[p].pc = "listLogin" /\ Login(p, "listResolve")

\* The directory taken from the request's file name, not from Directory.
listResolve_ByFilename(p) ==
    /\ inv[p].pc = "listResolve"
    /\ \E lerr \in BOOLEAN :
         inv' = [inv EXCEPT ![p] =
                   IF lerr THEN Return(@, "getting directory")
                   ELSE [@ EXCEPT !.pc = "listList",
                                  !.dir = getSecureDirAndFilename(inv[p].metadata.RootPath,
                                              Lookup(inv[p].req.Metadata, "Filename")).dir]]
    /\ UNCHANGED <<sess, srv, prev, gone, Static>>

\* dir, err := getSecureDir(metadata.RootPath, metadata.Directory)
listResolve(p) ==
    /\ inv[p].pc = "listResolve"
    /\ \E lerr \in BOOLEAN :
         inv' = [inv EXCEPT ![p] =
                   IF lerr THEN Return(@, "getting directory")
                   ELSE [@ EXCEPT !.pc = "listList",
                                  !.dir = getSecureDir(inv[p].metadata.RootPath, inv[p].metadata.Directory)]]
    /\ UNCHANGED <<sess, srv, prev, gone, Static>>

\* entries, err := c.List(dir).  For a directory that does not exist a
\* server answers with an error or with an empty listing.
listList(p) ==
    /\ inv[p].pc = "listList"
    /\ LET path == SrvResolve(sess[p].cwd, inv[p].dir)
           can == path \in srv.dirs
       IN \E ok \in BOOLEAN :
            LET i == Logged(inv[p], "LIST", inv[p].dir, ok, can) IN
            inv' = [inv EXCEPT ![p] =
                      IF ok THEN [i EXCEPT !.pc = "listQuit",
                                           !.entries = IF can THEN Listing(path) ELSE <<>>]
                      ELSE Return(i, "directory list error")]
    /\ UNCHANGED <<sess, srv, prev, gone, Static>>

\* The listResponse built from the entries that are files.
listQuit_FilesOnly(p) ==
    /\ inv[p].pc = "listQuit"
    /\ \E ok \in BOOLEAN :
         LET i == Logged(inv[p], "QUIT", "", ok, TRUE)
             files == SelectSeq(i.entries, LAMBDA e : e.Type = "file")
         IN
         /\ inv' = [inv EXCEPT ![p] =
                      IF ok THEN [i EXCEPT !.pc = "done",
                                    !.resp = [kind |-> "list", directory |-> i.dir,
                                              fileInfos |-> [k \in 1..Len(files) |->
                                                  [filename |-> files[k].Name,
                                                   filetype |-> files[k].Type]]]]
                      ELSE Return(i, "ftp quit error")]
         /\ sess' = [sess EXCEPT ![p].state = IF ok THEN "closed" ELSE "broken"]
    /\ UNCHANGED <<srv, prev, gone, Static>>

\* err = c.Quit(), then the listResponse built from entries.
listQuit(p) ==
    /\ inv[p].pc = "listQuit"
    /\ \E ok \in BOOLEAN :
         LET i == Logged(inv[p], "QUIT", "", ok, TRUE) IN
         /\ inv' = [inv EXCEPT ![p] =
                      IF ok THEN [i EXCEPT !.pc = "done",
                                    !.resp = [kind |-> "list", directory |-> i.dir,
                                              fileInfos |-> [k \in 1..Len(i.entries) |->
                                                  [filename |-> i.entries[k].Name,
                                                   filetype |-> i.entries[k].Type]]]]
                      ELSE Return(i, "ftp quit error")]
         /\ sess' = [sess EXCEPT ![p].state = IF ok THEN "closed" ELSE "broken"]
    /\ UNCHANGED <<srv, prev, gone, Static>>

---------------------------------------------------------------------------
(* get *)

getPrepare(p) ==
    /\ inv[p].pc = "get"
    /\ LET metadata == mergeWithRequestMetadata(fmeta, inv[p].req)
           filename == Lookup(inv[p].req.Metadata, "Filename")
           i == [inv[p] EXCEPT !.metadata = metadata, !.filename = filename]
       IN IF filenameIsEmpty(filename)
              THEN inv' = [inv EXCEPT ![p] = Return(i, "filename is empty")]
              ELSE \E lerr \in BOOLEAN :
                     LET s == getSecureDirAndFilename(fmeta.RootPath, filename) IN
                     inv' = [inv EXCEPT ![p] =
                               IF lerr THEN Return(i, "getting directory and file name")
                               ELSE [i EXCEPT !.pc = "getDial", !.absPath = s.absPath,
                                              !.dir = s.dir, !.exactFilename = s.exactFilename]]
    /\ UNCHANGED <<sess, srv, prev, gone, Static>>

getDial(p) == inv[p].pc = "getDial" /\ Dial(p, "getLogin")

getLogin(p) == inv[p].pc = "getLogin" /\ Login(p, "getChangeDir")

getChangeDir(p) == inv[p].pc = "getChangeDir" /\ ChangeDir(p, "getRetr")

\* res, err := c.Retr(exactFilename); defer res.Close()
getRetr(p) ==
    /\ inv[p].pc = "getRetr"
    /\ LET path == SrvResolve(sess[p].cwd, inv[p].exactFilename)
           can == HasFile(path)
       IN \E ok \in Outcomes(can) :
            LET i == Logged(inv[p], "RETR", inv[p].exactFilename, ok, can) IN
            inv' = [inv EXCEPT ![p] =
                      IF ok THEN [i EXCEPT !.pc = "getQuit",
                                           !.res = [kind |-> "stream", data |-> FileData(path)]]
                      ELSE Return(i, "retrieve error")]
    /\ UNCHANGED <<sess, srv, prev, gone, Static>>

\* The Quit of get with its error dropped.
getQuit_Unchecked(p) ==
    /\ inv[p].pc = "getQuit"
    /\ \E ok \in BOOLEAN :
         LET i == Logged(inv[p], "QUIT", "", ok, TRUE) IN
         /\ inv' = [inv EXCEPT ![p] = [i EXCEPT !.pc = "getReadAll"]]
         /\ sess' = [sess EXCEPT ![p].state = IF ok THEN "closed" ELSE "broken"]
    /\ UNCHANGED <<srv, prev, gone, Static>>

\* err = c.Quit(); the deferred res.Close() runs when the handler returns.
getQuit(p) ==
    /\ inv[p].pc = "getQuit"
    /\ \E ok \in BOOLEAN :
         LET i == Logged(inv[p], "QUIT", "", ok, TRUE) IN
         /\ inv' = [inv EXCEPT ![p] =
                      IF ok THEN [i EXCEPT !.pc = "getReadAll"]
                      ELSE Return(Logged(i, "CLOSE", "", TRUE, TRUE), "quit error")]
         /\ sess' = [sess EXCEPT ![p].state = IF ok THEN "closed" ELSE "broken"]
    /\ UNCHANGED <<srv, prev, gone, Static>>

\* buf, err := io.ReadAll(res), after the Quit: the transfer the server
\* started before the QUIT completes (RFC 959, QUIT) or the read fails.
getReadAll(p) ==
    /\ inv[p].pc = "getReadAll"
    /\ \E ok \in BOOLEAN :
         LET i == Logged(Logged(inv[p], "READ", "", ok, TRUE), "CLOSE", "", TRUE, TRUE) IN
         inv' = [inv EXCEPT ![p] =
                   IF ok THEN [i EXCEPT !.pc = "done", !.resp = [kind |-> "get", data |-> i.res.data]]
                   ELSE Return(i, "retrieve error")]
    /\ UNCHANGED <<sess, srv, prev, gone, Static>>

---------------------------------------------------------------------------
(* delete *)

deletePrepare(p) ==
    /\ inv[p].pc = "delete"
    /\ LET metadata == mergeWithRequestMetadata(fmeta, inv[p].req)
           filename == Lookup(inv[p].req.Metadata, "Filename")
           i == [inv[p] EXCEPT !.metadata = metadata, !.filename = filename]
       IN IF filenameIsEmpty(filename)
              THEN inv' = [inv EXCEPT ![p] = Return(i, "filename is empty")]
              ELSE \E lerr \in BOOLEAN :
                     LET s == getSecureDirAndFilename(fmeta.RootPath, filename) IN
                     inv' = [inv EXCEPT ![p] =
                               IF lerr THEN Return(i, "getting directory and file name")
                               ELSE [i EXCEPT !.pc = "deleteDial", !.absPath = s.absPath,
                                              !.dir = s.dir, !.exactFilename = s.exactFilename]]
    /\ UNCHANGED <<sess, srv, prev, gone, Static>>

deleteDial(p) == inv[p].pc = "deleteDial" /\ Dial(p, "deleteLogin")

deleteLogin(p) == inv[p].pc = "deleteLogin" /\ Login(p, "deleteChangeDir")

deleteChangeDir(p) == inv[p].pc = "deleteChangeDir" /\ ChangeDir(p, "deleteDelete")

\* The Delete with its error dropped.
deleteDelete_Unchecked(p) ==
    /\ inv[p].pc = "deleteDelete"
    /\ LET path == SrvResolve(sess[p].cwd, inv[p].exactFilename)
           can == HasFile(path)
       IN \E ok \in Outcomes(can) :
            LET i == Logged(inv[p], "DELE", inv[p].exactFilename, ok, can) IN
            /\ inv' = [inv EXCEPT ![p] = [i EXCEPT !.pc = "deleteQuit"]]
            /\ srv' = IF ok THEN [srv EXCEPT !.files = {f \in @ : f[1] # path}] ELSE srv
    /\ UNCHANGED <<sess, prev, gone, Static>>

\* The Delete that takes a file that is not there as deleted.
deleteDelete_Idempotent(p) ==
    /\ inv[p].pc = "deleteDelete"
    /\ LET path == SrvResolve(sess[p].cwd, inv[p].exactFilename)
           can == HasFile(path)
       IN \E ok \in Outcomes(can) :
            LET i == Logged(inv[p], "DELE", inv[p].exactFilename, ok \/ ~can, can) IN
            /\ inv' = [inv EXCEPT ![p] = IF ok \/ ~can THEN [i EXCEPT !.pc = "deleteQuit"]
                                               ELSE Return(i, "file delete error")]
            /\ srv' = IF ok THEN [srv EXCEPT !.files = {f \in @ : f[1] # path}] ELSE srv
    /\ UNCHANGED <<sess, prev, gone, Static>>

\* err = c.Delete(exactFilename)
deleteDelete(p) ==
    /\ inv[p].pc = "deleteDelete"
    /\ LET path == SrvResolve(sess[p].cwd, inv[p].exactFilename)
           can == HasFile(path)
       IN \E ok \in Outcomes(can) :
            LET i == Logged(inv[p], "DELE", inv[p].exactFilename, ok, can) IN
            /\ inv' = [inv EXCEPT ![p] = IF ok THEN [i EXCEPT !.pc = "deleteQuit"]
                                               ELSE Return(i, "file delete error")]
            /\ srv' = IF ok THEN [srv EXCEPT !.files = {f \in @ : f[1] # path}] ELSE srv
    /\ UNCHANGED <<sess, prev, gone, Static>>

\* err = c.Quit(), then the empty response.
deleteQuit(p) ==
    /\ inv[p].pc = "deleteQuit"
    /\ \E ok \in BOOLEAN :
         LET i == Logged(inv[p], "QUIT", "", ok, TRUE) IN
         /\ inv' = [inv EXCEPT ![p] =
                      IF ok THEN [i EXCEPT !.pc = "done", !.resp = [kind |-> "delete"]]
                      ELSE Return(i, "quit error")]
         /\ sess' = [sess EXCEPT ![p].state = IF ok THEN "closed" ELSE "broken"]
         /\ gone' = IF ok THEN gone \cup {SrvResolve(sess[p].cwd, inv[p].exactFilename)} ELSE gone
    /\ UNCHANGED <<srv, prev, Static>>

---------------------------------------------------------------------------
(* The binding under sequential invocations *)

NoPin == [kind |-> "none"]
NoPout == [kind |-> "none"]

\* The directory the root designates on the server, and the file systems an
\* invocation may find: the root missing, present, or with the
\* subdirectory reports.
RootDir(m) == SrvResolve(Home, getSecureDir(m.RootPath, Empty))

InitDirs(m) ==
    { Ancestors(Home) \cup Ancestors(Parent(RootDir(m))),
      Ancestors(Home) \cup Ancestors(RootDir(m)),
      Ancestors(Home) \cup Ancestors(Append(RootDir(m), "reports")) }

Init ==
    /\ fmeta \in { ftpMetadata(root, Empty) : root \in RootPaths }
    /\ inv = [p \in Procs |-> Idle]
    /\ sess = [p \in Procs |-> NoSession]
    /\ srv \in { [dirs |-> ds, files |-> {}] : ds \in InitDirs(fmeta) }
    /\ prev = Summary(Idle)
    /\ gone = {}
    /\ last = 0
    /\ harness = "seq"
    /\ pin = NoPin
    /\ pout = NoPout

Next ==
    \E p \in Procs :
        \/ Invoke(p)
        \/ createPrepare(p) \/ createDial(p) \/ createLogin(p) \/ createChangeDir(p)
        \/ createMakeDir(p) \/ createChangeDir2(p) \/ createStor(p) \/ createQuit(p)
        \/ listPrepare(p) \/ listDial(p) \/ listLogin(p) \/ listResolve(p)
        \/ listList(p) \/ listQuit(p)
        \/ getPrepare(p) \/ getDial(p) \/ getLogin(p) \/ getChangeDir(p)
        \/ getRetr(p) \/ getQuit(p) \/ getReadAll(p)
        \/ deletePrepare(p) \/ deleteDial(p) \/ deleteLogin(p) \/ deleteChangeDir(p)
        \/ deleteDelete(p) \/ deleteQuit(p)

Spec == Init /\ [][Next]_vars

---------------------------------------------------------------------------
(* The binding under two concurrent invocations *)

InitConc ==
    /\ fmeta \in { ftpMetadata(root, Empty) : root \in RootPaths }
    /\ inv = [p \in Procs |-> Idle]
    /\ sess = [p \in Procs |-> NoSession]
    /\ srv \in { [dirs |-> ds, files |-> {}] : ds \in InitDirs(fmeta) }
    /\ prev = Summary(Idle)
    /\ gone = {}
    /\ last = 0
    /\ harness = "conc"
    /\ pin = NoPin
    /\ pout = NoPout

SpecConc == InitConc /\ [][Next]_vars


---------------------------------------------------------------------------
(* The pure functions on drawn inputs *)

PureRoots ==
    { Empty, Dot, Rel(<<"srv">>), Abs(<<"srv">>), Rel(<<"srv", "data">>),
      Abs(<<"srv", "ftp", "data">>) }

PureStrs == { Str(abs, segs) : abs \in BOOLEAN, segs \in SeqsUpTo({"..", ".", "a", "d"}, MaxSegs) }

PureMetadata ==
    { [ftpMetadata(root, dir) EXCEPT !.User = u] :
        root \in {Rel(<<"rootpath">>), Abs(<<"srv">>)},
        dir \in {Empty, Rel(<<"def">>)}, u \in {"user", "admin"} }

PureRequests ==
    { Request(ListOperation, md, <<>>) :
        md \in { {}, { <<"Directory", Empty>> }, { <<"Directory", Rel(<<"d">>)>> },
                 { <<"directory", Rel(<<"d">>)>> },
                 { <<"Directory", Rel(<<"..", "x">>)>>, <<"Filename", Rel(<<"a">>)>> } } }

PureInputs ==
    { [kind |-> "path", rootPath |-> root, str |-> s] : root \in PureRoots, s \in PureStrs }
    \cup { [kind |-> "merge", metadata |-> m, req |-> r] : m \in PureMetadata, r \in PureRequests }

PureInit ==
    /\ fmeta = ftpMetadata(Empty, Empty)
    /\ inv = [p \in Procs |-> Idle]
    /\ sess = [p \in Procs |-> NoSession]
    /\ srv = [dirs |-> Ancestors(Home), files |-> {}]
    /\ prev = Summary(Idle)
    /\ gone = {}
    /\ last = 0
    /\ harness = "pure"
    /\ pin \in PureInputs
    /\ pout = NoPout

Fixed == <<fmeta, inv, sess, srv, prev, gone, last, harness, pin>>

applyGetSecureDirAndFilename ==
    /\ harness = "pure" /\ pin.kind = "path" /\ pout.kind = "none"
    /\ pout' = [kind |-> "file", val |-> getSecureDirAndFilename(pin.rootPath, pin.str)]
    /\ UNCHANGED Fixed

applyGetSecureDir ==
    /\ harness = "pure" /\ pin.kind = "path" /\ pout.kind = "none"
    /\ pout' = [kind |-> "dir", val |-> getSecureDir(pin.rootPath, pin.str)]
    /\ UNCHANGED Fixed

applyMergeWithRequestMetadata ==
    /\ harness = "pure" /\ pin.kind = "merge" /\ pout.kind = "none"
    /\ pout' = [kind |-> "merge", val |-> mergeWithRequestMetadata(pin.metadata, pin.req)]
    /\ UNCHANGED Fixed

PureNext ==
    \/ applyGetSecureDirAndFilename
    \/ applyGetSecureDir
    \/ applyMergeWithRequestMetadata

SpecPure == PureInit /\ [][PureNext]_vars


---------------------------------------------------------------------------
(* Properties *)

Cmds(i, c) == { k \in 1..Len(i.log) : i.log[k].cmd = c }
Issued(i, c) == Cmds(i, c) # {}
Failed(i, c) == \E k \in Cmds(i, c) : ~i.log[k].ok
Succeeded(i, c) == \E k \in Cmds(i, c) : i.log[k].ok
Done(i) == i.pc = "done"
Op(i) == i.req.Operation

IsPrefix(a, b) == Len(a) <= Len(b) /\ SubSeq(b, 1, Len(a)) = a
PathSegs(s) == IF Clean(s) = Dot THEN <<>> ELSE Clean(s).segs

\* path is root or below it: both rooted or both relative, and the elements
\* of root are the first elements of path.
Inside(root, path) ==
    /\ Clean(path).abs = Clean(root).abs
    /\ IsPrefix(PathSegs(root), PathSegs(path))

\* The file a handler's file command addresses: exactFilename in the
\* directory dir, from the login directory.
Target(i) == SrvResolve(SrvResolve(Home, i.dir), i.exactFilename)

RelativeRoot(root) == Rel(CleanSegs(TRUE, <<>>, root.segs))

C2_QuitOnEveryExit ==
    \A p \in Procs :
        Done(inv[p]) /\ Succeeded(inv[p], "DIAL") => Issued(inv[p], "QUIT")

\* C3: create changes into the target directory right after the login; a
\* change that fails because the directory is missing is followed by one
\* make-directory for it and, if that succeeds, by one more change; a failed
\* make-directory or second change ends the invocation with a directory
\* error, no response and no store.
C3_CreateDirectoryFallback ==
    \A p \in Procs :
        LET i == inv[p]
            L == i.log
            n == Len(L)
        IN Op(i) = CreateOperation =>
            /\ \A k \in Cmds(i, "LOGIN") : L[k].ok =>
                   IF k < n THEN L[k + 1].cmd = "CWD" /\ L[k + 1].arg = i.dir
                            ELSE i.pc = "createChangeDir"
            /\ \A k \in Cmds(i, "CWD") : L[k].why = "state" /\ k = 3 =>
                   IF k < n THEN L[k + 1].cmd = "MKD" /\ L[k + 1].arg = i.dir
                            ELSE i.pc = "createMakeDir"
            /\ \A k \in Cmds(i, "MKD") : L[k].ok =>
                   IF k < n THEN L[k + 1].cmd = "CWD" /\ L[k + 1].arg = i.dir
                            ELSE i.pc = "createChangeDir2"
            /\ Cardinality(Cmds(i, "MKD")) <= 1
            /\ Cardinality(Cmds(i, "CWD")) <= 2
            /\ Failed(i, "MKD") \/ (\E k \in Cmds(i, "CWD") : k > 3 /\ ~L[k].ok) =>
                   /\ Done(i) /\ i.resp = NoResp
                   /\ i.err \in {"directory create error", "directory change error"}
                   /\ ~Issued(i, "STOR")

C3_Witness ==
    \E p \in Procs :
        LET L == inv[p].log IN
        /\ Op(inv[p]) = CreateOperation /\ Done(inv[p]) /\ inv[p].err = None
        /\ Len(L) = 7 /\ L[3].cmd = "CWD" /\ L[3].why = "state"
        /\ L[4].cmd = "MKD" /\ L[4].ok /\ L[5].cmd = "CWD" /\ L[5].ok
        /\ L[6].cmd = "STOR" /\ L[6].ok

\* C4: get and delete issue no make-directory; when their change of
\* directory fails the invocation has returned a directory error, no
\* retrieve or delete is issued, and the step leaves the remote file system
\* as it was.
C4_ReadDeleteNoFallback ==
    [][\A p \in Procs :
          LET i == inv'[p] IN
          Op(i) \in {GetOperation, DeleteOperation} =>
              /\ ~Issued(i, "MKD")
              /\ Failed(i, "CWD") =>
                    /\ Done(i) /\ i.err = "directory change error" /\ i.resp = NoResp
                    /\ ~Issued(i, "RETR") /\ ~Issued(i, "DELE")
                    /\ inv'[p] # inv[p] => srv' = srv]_vars

C4_Witness ==
    \E p \in Procs :
        /\ Op(inv[p]) = DeleteOperation /\ Done(inv[p])
        /\ \E k \in Cmds(inv[p], "CWD") : inv[p].log[k].why = "state"
        /\ inv[p].err = "directory change error"
        /\ srv.files # {}

\* C5 as stated: list changes into the resolved directory before it lists.
C5_ListChangesDirFirst ==
    \A p \in Procs :
        LET i == inv[p] IN
        Op(i) = ListOperation =>
            \A k \in Cmds(i, "LIST") :
                \E j \in Cmds(i, "CWD") : j < k /\ i.log[j].ok /\ i.log[j].arg = i.dir

\* C5 amended: list issues no change-directory and no make-directory; its
\* list command follows the successful login and names the directory
\* getSecureDir resolves; a list command that fails ends the invocation
\* with a list error and no response.
C5_ListPassesDirToList ==
    \A p \in Procs :
        LET i == inv[p]
            L == i.log
        IN Op(i) = ListOperation =>
            /\ ~Issued(i, "CWD") /\ ~Issued(i, "MKD")
            /\ \A k \in Cmds(i, "LIST") :
                   /\ k = 3 /\ L[2].cmd = "LOGIN" /\ L[2].ok
                   /\ L[k].arg = getSecureDir(fmeta.RootPath, i.metadata.Directory)
                   /\ ~L[k].ok => Done(i) /\ i.err = "directory list error" /\ i.resp = NoResp

C5_Witness ==
    \E p \in Procs :
        /\ Op(inv[p]) = ListOperation /\ Done(inv[p])
        /\ \E k \in Cmds(inv[p], "LIST") : inv[p].log[k].why = "state"
        /\ inv[p].err = "directory list error"

\* C6: create, get and delete whose request has no "Filename" value or an
\* empty one issue no command and open no connection, and return the
\* filename error with no response.
C6_EmptyFilenameNoNetwork ==
    \A p \in Procs :
        LET i == inv[p] IN
        /\ Op(i) \in {CreateOperation, GetOperation, DeleteOperation}
        /\ Lookup(i.req.Metadata, "Filename") = Empty
        => /\ i.log = <<>> /\ sess[p] = NoSession
           /\ i.pc \in {Op(i), "done"}
           /\ Done(i) => i.err = "filename is empty" /\ i.resp = NoResp

C6_Witness ==
    \E p \in Procs :
        /\ Op(inv[p]) = GetOperation /\ inv[p].req.Metadata = {}
        /\ Done(inv[p]) /\ inv[p].err = "filename is empty"

ActionError(op) ==
    CASE op = CreateOperation -> "store error"
      [] op = ListOperation   -> "directory list error"
      [] op = GetOperation    -> "retrieve error"
      [] op = DeleteOperation -> "file delete error"
      [] OTHER -> None

ActionCmd(op) ==
    CASE op = CreateOperation -> "STOR"
      [] op = ListOperation   -> "LIST"
      [] op = GetOperation    -> "RETR"
      [] op = DeleteOperation -> "DELE"
      [] OTHER -> None

\* C7: in each handler, a Quit that fails after the file action succeeded
\* ends the invocation at once with a quit error, which is not the handler's
\* action error, and with no response.
C7_QuitFailureReported ==
    \A p \in Procs :
        LET i == inv[p] IN
        Succeeded(i, ActionCmd(Op(i))) /\ Failed(i, "QUIT") =>
            /\ Done(i) /\ i.resp = NoResp
            /\ i.err \in {"quit error", "ftp quit error"}
            /\ i.err # ActionError(Op(i))

C7_Witness ==
    \E p \in Procs :
        /\ Op(inv[p]) = GetOperation /\ Succeeded(inv[p], "RETR")
        /\ Failed(inv[p], "QUIT") /\ inv[p].err = "quit error"

\* C8: the merged metadata has the request's "Directory" as its Directory
\* exactly when that is present and not empty, the static Directory
\* otherwise, and the static value in every other field.
C8_MergeOverridesDirectoryOnly ==
    pout.kind = "merge" =>
        LET m == pin.metadata
            md == pin.req.Metadata
            override == \E e \in md : e[1] = "Directory" /\ e[2] # Empty
        IN /\ override => \E e \in md : e[1] = "Directory" /\ pout.val.Directory = e[2]
           /\ ~override => pout.val.Directory = m.Directory
           /\ pout.val.RootPath = m.RootPath /\ pout.val.Server = m.Server
           /\ pout.val.Port = m.Port /\ pout.val.User = m.User
           /\ pout.val.Password = m.Password

C8_Witness ==
    /\ pout.kind = "merge"
    /\ pout.val.Directory = Rel(<<"d">>)
    /\ pin.metadata.Directory = Rel(<<"def">>)

\* C9: a get that returns a response right after a successful create of the
\* same resolved path returns the payload given to that create.
C9_CreateGetRoundTrip ==
    \A p \in Procs :
        LET i == inv[p] IN
        /\ Op(i) = GetOperation /\ Done(i) /\ i.err = None
        /\ prev.op = CreateOperation /\ prev.ok /\ prev.absPath = i.absPath
        => i.resp = [kind |-> "get", data |-> prev.data]

C9_Witness ==
    \E p \in Procs :
        /\ Op(inv[p]) = GetOperation /\ Done(inv[p]) /\ inv[p].err = None
        /\ prev.op = CreateOperation /\ prev.ok /\ prev.absPath = inv[p].absPath
        /\ inv[p].resp.data = <<"q", "x", "q">>

\* C10: while a file removed by a successful delete has not been stored
\* again, a get of it returns no response: its retrieve, if it gets that
\* far, fails and the invocation returns the retrieve error.
C10_GetAfterDeleteFails ==
    \A p \in Procs :
        LET i == inv[p] IN
        Op(i) = GetOperation /\ Target(i) \in gone =>
            /\ i.resp = NoResp
            /\ Done(i) => i.err # None
            /\ \A k \in Cmds(i, "RETR") :
                   ~i.log[k].ok /\ Done(i) /\ i.err = "retrieve error"

C10_Witness ==
    \E p \in Procs :
        /\ Op(inv[p]) = GetOperation /\ Target(inv[p]) \in gone
        /\ \E k \in Cmds(inv[p], "RETR") : inv[p].log[k].why = "state"
        /\ Done(inv[p]) /\ inv[p].err = "retrieve error"

\* C11: the delete command of a delete whose target is not a file on the
\* server fails and the invocation returns the delete error with no
\* response; a delete that returns a response returns the empty one, with
\* no error, after its delete command succeeded.
C11_DeleteMissingFileFails ==
    [][\A p \in Procs :
          LET i == inv[p]
              j == inv'[p]
          IN Op(j) = DeleteOperation =>
              /\ Issued(j, "DELE") /\ ~Issued(i, "DELE") /\ ~HasFile(Target(j)) =>
                    Done(j) /\ j.err = "file delete error" /\ j.resp = NoResp
              /\ Done(j) /\ (j.resp # NoResp \/ j.err = None) =>
                    /\ j.resp = [kind |-> "delete"] /\ j.err = None
                    /\ Succeeded(j, "DELE")]_vars

C11_Witness ==
    \E p \in Procs :
        /\ Op(inv[p]) = DeleteOperation /\ Done(inv[p])
        /\ Succeeded(inv[p], "CWD")
        /\ \E k \in Cmds(inv[p], "DELE") : inv[p].log[k].why = "state"
        /\ inv[p].err = "file delete error" /\ inv[p].resp = NoResp

\* C12: the response of a list has the resolved directory that was named
\* to the list command as its directory, and as its fileInfos the entries
\* the server returned for it: as many, in the server's order, each with
\* the entry's name and type.
C12_ListReturnsServerEntries ==
    \A p \in Procs :
        LET i == inv[p]
            path == SrvResolve(Home, i.dir)
        IN Op(i) = ListOperation /\ Done(i) /\ i.err = None =>
            /\ i.resp.kind = "list"
            /\ i.resp.directory = getSecureDir(fmeta.RootPath, i.metadata.Directory)
            /\ \A k \in Cmds(i, "LIST") : i.log[k].arg = i.resp.directory
            /\ path \in srv.dirs => i.entries = Listing(path)
            /\ Len(i.resp.fileInfos) = Len(i.entries)
            /\ \A k \in 1..Len(i.entries) :
                   i.resp.fileInfos[k] = [filename |-> i.entries[k].Name,
                                          filetype |-> i.entries[k].Type]

C12_Witness ==
    \E p \in Procs :
        /\ Op(inv[p]) = ListOperation /\ Done(inv[p]) /\ inv[p].err = None
        /\ Len(inv[p].resp.fileInfos) = 2
        /\ inv[p].resp.fileInfos[1].filetype # inv[p].resp.fileInfos[2].filetype

\* No command of the invocation failed without a reason in the server's state.
NoFault(i) == \A k \in 1..Len(i.log) : i.log[k].why # "fault"

\* C13: of two creates that follow each other into a directory that is
\* absent at first, where the server fails a command only for a reason in
\* its state: the first, whose change of directory fails, issues one
\* make-directory, stores the file and returns a response; the second finds
\* the directory, its change of directory does not fail, it issues no
\* make-directory and returns a response.
C13_SecondCreateNoMakeDir ==
    \A p \in Procs :
        LET i == inv[p]
            L == i.log
            path == SrvResolve(Home, i.dir)
        IN Op(i) = CreateOperation =>
            /\ /\ \E k \in Cmds(i, "CWD") : k = 3 /\ L[k].why = "state"
               /\ NoFault(i) /\ Parent(path) \in srv.dirs /\ ~HasFile(path)
               => /\ Cardinality(Cmds(i, "MKD")) <= 1 /\ ~Failed(i, "MKD")
                  /\ Done(i) =>
                        /\ i.err = None /\ i.resp = [kind |-> "create", fileName |-> i.absPath]
                        /\ Cardinality(Cmds(i, "MKD")) = 1
                        /\ L[4].cmd = "MKD" /\ L[5].cmd = "CWD" /\ L[5].ok
                        /\ L[6].cmd = "STOR" /\ L[6].ok
                        /\ HasFile(Target(i)) /\ FileData(Target(i)) = i.req.Data
            /\ prev.ok /\ prev.dir = i.dir =>
                  /\ \A k \in Cmds(i, "CWD") : L[k].why # "state"
                  /\ NoFault(i) /\ Target(i) \notin srv.dirs =>
                        /\ ~Issued(i, "MKD")
                        /\ Done(i) => i.err = None /\ Succeeded(i, "STOR")

C13_Witness ==
    \E p \in Procs :
        /\ Op(inv[p]) = CreateOperation /\ Done(inv[p]) /\ inv[p].err = None
        /\ prev.ok /\ prev.mkd /\ prev.dir = inv[p].dir
        /\ NoFault(inv[p]) /\ ~Issued(inv[p], "MKD") /\ Succeeded(inv[p], "STOR")

ReportsOut == <<"srv", "ftp", "data", "reports", "out.txt">>

\* A create of reports/out.txt under the root /srv/ftp/data that has
\* resolved its path.
ReportsCreate(i) ==
    /\ Op(i) = CreateOperation /\ fmeta.RootPath = Abs(<<"srv", "ftp", "data">>)
    /\ i.filename = Rel(<<"reports", "out.txt">>) /\ i.absPath # Empty

Validated(i) == i.pc # Op(i)

\* C15 as stated: a create, get or delete whose request has a non-empty
\* value under the key "filename" is not rejected for an empty file name,
\* and the value a list or create request has under the key "directory" is
\* the Directory of the merged metadata.
C15_LowerCaseKeys ==
    \A p \in Procs :
        LET i == inv[p]
            md == i.req.Metadata
        IN /\ /\ Op(i) \in {CreateOperation, GetOperation, DeleteOperation}
              /\ Lookup(md, "filename") # Empty
              => i.err # "filename is empty"
           /\ /\ Op(i) \in {ListOperation, CreateOperation} /\ Validated(i)
              /\ Lookup(md, "directory") # Empty
              => i.metadata.Directory = Lookup(md, "directory")

\* C15 amended: the keys are "Filename" and "Directory", matched exactly.
\* A create, get or delete whose request has a non-empty "Filename" is not
\* rejected for an empty file name and resolves that name; a non-empty
\* "Directory" of a list or create request is the Directory of the merged
\* metadata; a request with the keys "filename" or "directory" only is
\* handled as one without them.
C15_CapitalisedKeys ==
    \A p \in Procs :
        LET i == inv[p]
            md == i.req.Metadata
        IN /\ /\ Op(i) \in {CreateOperation, GetOperation, DeleteOperation}
              /\ Lookup(md, "Filename") # Empty
              => /\ i.err # "filename is empty"
                 /\ Validated(i) => i.filename = Lookup(md, "Filename")
           /\ /\ Op(i) \in {ListOperation, CreateOperation} /\ Validated(i)
              /\ Lookup(md, "Directory") # Empty
              => i.metadata.Directory = Lookup(md, "Directory")
           /\ /\ Op(i) \in {CreateOperation, GetOperation, DeleteOperation}
              /\ ~HasKey(md, "Filename") /\ Done(i)
              => i.err = "filename is empty"
           /\ Op(i) = ListOperation /\ Validated(i) /\ ~HasKey(md, "Directory")
              => i.metadata.Directory = fmeta.Directory

C15_Witness ==
    \E p \in Procs :
        /\ Op(inv[p]) = CreateOperation /\ Done(inv[p]) /\ inv[p].err = None
        /\ inv[p].req.Metadata =
              { <<"Filename", Rel(<<"a">>)>>, <<"Directory", Rel(<<"reports">>)>> }
        /\ inv[p].metadata.Directory = Rel(<<"reports">>)

\* The request's directory override, "" without one.
Override(i) == Lookup(i.req.Metadata, "Directory")

\* C16 as stated: with a non-empty directory override, list names the
\* overridden directory to its list command, and create changes into and
\* stores the file in the overridden directory or below it.
C16_OverrideEffectiveInCreate ==
    \A p \in Procs :
        LET i == inv[p]
            over == getSecureDir(fmeta.RootPath, Override(i))
        IN Override(i) # Empty =>
            /\ Op(i) = ListOperation => \A k \in Cmds(i, "LIST") : i.log[k].arg = over
            /\ Op(i) = CreateOperation =>
                  /\ \A k \in Cmds(i, "CWD") : Inside(over, i.log[k].arg)
                  /\ Succeeded(i, "STOR") => IsPrefix(SrvResolve(Home, over), Target(i))

\* C16 amended: with a non-empty directory override, list names the
\* overridden directory, resolved under the root, to its list command;
\* create does not use the override: the create of a with the override
\* reports changes into the root and stores a there, and no file a comes to
\* be in reports.
C16_OverrideEffectiveInListOnly ==
    \A p \in Procs :
        LET i == inv[p]
            over == getSecureDir(fmeta.RootPath, Override(i))
        IN /\ Override(i) # Empty =>
                /\ Op(i) = ListOperation =>
                      /\ \A k \in Cmds(i, "LIST") : i.log[k].arg = over
                      /\ Done(i) /\ i.err = None => i.resp.directory = over
                /\ Op(i) = CreateOperation /\ i.filename = Rel(<<"a">>) =>
                      /\ \A k \in Cmds(i, "CWD") : SrvResolve(Home, i.log[k].arg) = RootDir(fmeta)
                      /\ Succeeded(i, "STOR") => HasFile(Append(RootDir(fmeta), "a"))
           /\ ~HasFile(RootDir(fmeta) \o <<"reports", "a">>)

C16_Witness ==
    \E p \in Procs :
        /\ Op(inv[p]) = CreateOperation /\ Override(inv[p]) = Rel(<<"reports">>)
        /\ Done(inv[p]) /\ inv[p].err = None
        /\ HasFile(Append(RootDir(fmeta), "a"))
        /\ Append(RootDir(fmeta), "reports") \in srv.dirs

\* C17: in get, every read from and the close of the retrieval stream come
\* before the Quit of the session.
C17_StreamReleasedBeforeQuit ==
    \A p \in Procs :
        LET i == inv[p] IN
        Op(i) = GetOperation =>
            \A q \in Cmds(i, "QUIT") :
                \A k \in Cmds(i, "READ") \cup Cmds(i, "CLOSE") : k < q

Supported == {CreateOperation, ListOperation, GetOperation, DeleteOperation}

\* The positions of the handler of an operation kind.
Steps(op) ==
    CASE op = CreateOperation ->
            {"create", "createDial", "createLogin", "createChangeDir", "createMakeDir",
             "createChangeDir2", "createStor", "createQuit"}
      [] op = ListOperation ->
            {"list", "listDial", "listLogin", "listResolve", "listList", "listQuit"}
      [] op = GetOperation ->
            {"get", "getDial", "getLogin", "getChangeDir", "getRetr", "getQuit", "getReadAll"}
      [] op = DeleteOperation ->
            {"delete", "deleteDial", "deleteLogin", "deleteChangeDir", "deleteDelete",
             "deleteQuit"}
      [] OTHER -> {}

\* C18: an invocation of a kind other than create, list, get and delete has
\* returned the unsupported-operation error with no response, no command
\* and no connection; an invocation of one of the four kinds is in its own
\* handler or has returned from it: the only file command it issues is its
\* own, its response is of its kind and its error is not the
\* unsupported-operation error.
C18_DispatchByKind ==
    \A p \in Procs :
        LET i == inv[p] IN
        i.pc # "idle" =>
            /\ Op(i) \notin Supported =>
                  /\ Done(i) /\ i.err = "unsupported operation" /\ i.resp = NoResp
                  /\ i.log = <<>> /\ sess[p] = NoSession
            /\ Op(i) \in Supported =>
                  /\ i.pc \in Steps(Op(i)) \cup {"done"}
                  /\ \A k \in 1..Len(i.log) :
                        i.log[k].cmd \in {"STOR", "LIST", "RETR", "DELE"} =>
                            i.log[k].cmd = ActionCmd(Op(i))
                  /\ i.resp # NoResp => i.resp.kind = Op(i)
                  /\ i.err # "unsupported operation"

C18_Witness ==
    \E p \in Procs :
        /\ Op(inv[p]) = "other" /\ Done(inv[p])
        /\ inv[p].err = "unsupported operation"
        /\ srv.files # {}

\* C19: a handler has returned nothing before it is done; when it is done
\* it has returned either a response and no error, or an error and no
\* response; it has returned a response only if every step of its session
\* succeeded, where the directory step of create succeeds also by the
\* make-directory and second change that follow a failed first change.
C19_ResponseXorError ==
    \A p \in Procs :
        LET i == inv[p]
            L == i.log
        IN /\ ~Done(i) => i.resp = NoResp /\ i.err = None
           /\ Done(i) => (i.resp # NoResp) = (i.err = None)
           /\ Done(i) /\ i.resp # NoResp =>
                 \A k \in 1..Len(L) :
                     ~L[k].ok =>
                         /\ Op(i) = CreateOperation /\ L[k].cmd = "CWD" /\ k = 3
                         /\ L[4].cmd = "MKD" /\ L[4].ok /\ L[5].cmd = "CWD" /\ L[5].ok

C19_Witness ==
    \E p \in Procs :
        /\ Op(inv[p]) = GetOperation /\ Done(inv[p])
        /\ Succeeded(inv[p], "RETR") /\ Succeeded(inv[p], "QUIT") /\ Failed(inv[p], "READ")
        /\ inv[p].resp = NoResp /\ inv[p].err = "retrieve error"

\* Two creates that have resolved the same remote file, in a directory
\* that neither had to make, with no command failed by a fault.
SameFileCreates ==
    /\ \A p \in Procs :
          /\ Op(inv[p]) = CreateOperation /\ inv[p].absPath # Empty
          /\ NoFault(inv[p]) /\ ~Succeeded(inv[p], "MKD")
    /\ Target(inv[1]) = Target(inv[2])
    /\ SrvResolve(Home, inv[1].dir) \in srv.dirs
    /\ Target(inv[1]) \notin srv.dirs

\* C20: of two concurrent creates of the same remote file in a directory
\* that exists, where the server fails no command by a fault: neither
\* fails a command, issues a make-directory or returns an error; once one
\* has stored, the file holds the payload of the one whose store succeeded
\* last, and when both have returned both have stored and returned a
\* response.
C20_LastWriteWins ==
    SameFileCreates =>
        /\ \A p \in Procs :
              /\ \A k \in 1..Len(inv[p].log) : inv[p].log[k].ok
              /\ ~Issued(inv[p], "MKD")
              /\ Done(inv[p]) =>
                    /\ inv[p].err = None /\ Succeeded(inv[p], "STOR")
                    /\ inv[p].resp = [kind |-> "create", fileName |-> inv[p].absPath]
        /\ (\E p \in Procs : Succeeded(inv[p], "STOR")) =>
              /\ last \in Procs /\ Succeeded(inv[last], "STOR")
              /\ HasFile(Target(inv[1]))
              /\ FileData(Target(inv[1])) = inv[last].req.Data
        /\ (\A p \in Procs : Done(inv[p])) => \A p \in Procs : Succeeded(inv[p], "STOR")

C20_Witness ==
    /\ SameFileCreates
    /\ \A p \in Procs : Done(inv[p]) /\ inv[p].err = None
    /\ inv[1].req.Data # inv[2].req.Data
    /\ last = 1
    /\ FileData(Target(inv[1])) = inv[1].req.Data
    /\ Len(inv[2].log) = 5 /\ Len(inv[1].log) = 5

\* The phase of an FTP command: dial, login, directory navigation, file
\* action, quit; 0 for what is not a command of the session (the read and
\* the close of the retrieval stream).
Phase(cmd) ==
    CASE cmd = "DIAL" -> 1
      [] cmd = "LOGIN" -> 2
      [] cmd \in {"CWD", "MKD"} -> 3
      [] cmd \in {"STOR", "LIST", "RETR", "DELE"} -> 4
      [] cmd = "QUIT" -> 5
      [] OTHER -> 0

\* C21: the FTP commands of an invocation are in the order dial, login,
\* directory navigation, file action, quit, each phase but the navigation
\* with one command at most; the login follows a successful dial, the
\* navigation and the file action a successful login; the file action is
\* the one of the operation kind; no command follows the Quit.
C21_ForwardOrder ==
    \A p \in Procs :
        LET i == inv[p]
            L == i.log
            F == { k \in 1..Len(L) : Phase(L[k].cmd) > 0 }
        IN /\ \A j, k \in F :
                 j < k => /\ Phase(L[j].cmd) <= Phase(L[k].cmd)
                          /\ Phase(L[j].cmd) = Phase(L[k].cmd) => Phase(L[k].cmd) = 3
           /\ \A k \in F :
                 /\ Phase(L[k].cmd) = 2 => k = 2 /\ L[1].cmd = "DIAL" /\ L[1].ok
                 /\ Phase(L[k].cmd) \in {3, 4} => k > 2 /\ L[2].cmd = "LOGIN" /\ L[2].ok
                 /\ Phase(L[k].cmd) = 4 => L[k].cmd = ActionCmd(Op(i))
                 /\ Phase(L[k].cmd) = 5 => \A j \in F : j <= k

C21_Witness ==
    \E p \in Procs :
        LET L == inv[p].log IN
        /\ Op(inv[p]) = CreateOperation /\ Done(inv[p]) /\ Len(L) = 7
        /\ L[1].cmd = "DIAL" /\ L[2].cmd = "LOGIN" /\ L[3].cmd = "CWD" /\ L[4].cmd = "MKD"
        /\ L[5].cmd = "CWD" /\ L[6].cmd = "STOR" /\ L[7].cmd = "QUIT"

\* The errors of request validation and of path resolution.
ResolutionErrors ==
    {"filename is empty", "getting directory and file name", "getting directory"}

\* C22: an invocation that has returned a validation or path-resolution
\* error has issued no command and has no connection; a dial is issued only
\* once the path is resolved.
C22_ResolveBeforeDial ==
    \A p \in Procs :
        LET i == inv[p] IN
        /\ i.err \in ResolutionErrors => i.log = <<>> /\ sess[p] = NoSession
        /\ Issued(i, "DIAL") /\ ~Done(i) => i.dir # Empty

\* C23: the directory create, get and delete resolve and name to their
\* change-directory and make-directory commands is the root, taken as a
\* relative path, or below it, and the file they address is an entry below
\* the root.
C23_DirectoryInsideRoot ==
    \A p \in Procs :
        LET i == inv[p]
            root == RelativeRoot(fmeta.RootPath)
        IN Op(i) \in {CreateOperation, GetOperation, DeleteOperation} /\ i.dir # Empty =>
            /\ Inside(root, i.dir)
            /\ \A k \in Cmds(i, "CWD") \cup Cmds(i, "MKD") : Inside(root, i.log[k].arg)
            /\ IsPrefix(RootDir(fmeta), Target(i)) /\ Target(i) # RootDir(fmeta)

\* C24: no step changes the static metadata; a step is the step of one
\* invocation and changes the connection of no other; an invocation dials
\* once at most, and issues its commands on the connection its own dial
\* opened.
C24_NoSharedState ==
    [][/\ fmeta' = fmeta
       /\ \A p \in Procs :
            LET i == inv[p]
                j == inv'[p]
            IN /\ Cardinality(Cmds(j, "DIAL")) <= 1
               /\ j # i => \A q \in Procs \ {p} : inv'[q] = inv[q] /\ sess'[q] = sess[q]
               /\ sess'[p] # sess[p] => j # i
               /\ (\E k \in (Len(i.log) + 1)..Len(j.log) : Phase(j.log[k].cmd) > 1) =>
                     /\ sess[p].state \in {"connected", "auth"}
                     /\ Len(i.log) >= 1 /\ i.log[1].cmd = "DIAL" /\ i.log[1].ok]_vars

C24_Witness ==
    /\ \A p \in Procs : sess[p].state = "auth" /\ Succeeded(inv[p], "DIAL")
    /\ Op(inv[1]) = ListOperation /\ inv[1].metadata.Directory = Rel(<<"reports">>)
    /\ fmeta.Directory = Empty
    /\ Op(inv[2]) = CreateOperation

\* C25 as stated: a make-directory of create follows a change-directory
\* that failed because the directory does not exist.
C25_MakeDirOnlyIfMissing ==
    \A p \in Procs :
        LET i == inv[p]
            L == i.log
        IN Op(i) = CreateOperation =>
            \A k \in Cmds(i, "MKD") :
                k > 1 /\ L[k - 1].cmd = "CWD" /\ L[k - 1].why = "state"

\* C25 amended: a make-directory of create follows the first
\* change-directory, which failed, and follows every failure of it,
\* whatever the reason; after a change-directory that failed on a directory
\* that is there, the make-directory fails and the invocation returns the
\* directory-create error.
C25_MakeDirAfterAnyFailure ==
    \A p \in Procs :
        LET i == inv[p]
            L == i.log
        IN Op(i) = CreateOperation =>
            /\ \A k \in Cmds(i, "MKD") : k = 4 /\ L[3].cmd = "CWD" /\ ~L[3].ok
            /\ Len(L) >= 3 /\ L[3].cmd = "CWD" /\ ~L[3].ok =>
                  IF Len(L) = 3 THEN i.pc = "createMakeDir" ELSE L[4].cmd = "MKD"
            /\ Len(L) >= 4 /\ L[3].why = "fault" =>
                  /\ L[4].why = "state"
                  /\ Done(i) /\ i.err = "directory create error" /\ i.resp = NoResp

C25_Witness ==
    \E p \in Procs :
        LET L == inv[p].log IN
        /\ Op(inv[p]) = CreateOperation /\ Done(inv[p]) /\ Len(L) = 4
        /\ L[3].cmd = "CWD" /\ L[3].why = "fault"
        /\ L[4].cmd = "MKD" /\ L[4].why = "state"
        /\ inv[p].err = "directory create error"

\* Two creates into the same directory, of which only the last level is
\* missing or which one of them has made, with no command failed by a
\* fault.
SameNewDirectoryCreates ==
    /\ \A p \in Procs :
          /\ Op(inv[p]) = CreateOperation /\ inv[p].absPath # Empty
          /\ NoFault(inv[p])
    /\ inv[1].dir = inv[2].dir
    /\ LET path == SrvResolve(Home, inv[1].dir) IN
          /\ Parent(path) \in srv.dirs /\ ~HasFile(path)
          /\ path \notin srv.dirs \/ \E p \in Procs : Succeeded(inv[p], "MKD")

\* C26: of two concurrent creates into a directory that is absent at
\* first, where the server fails a command only for a reason in its state,
\* neither returns a directory-create error, and each returns a response.
C26_NoDirectoryRace ==
    SameNewDirectoryCreates =>
        \A p \in Procs :
            /\ inv[p].err # "directory create error"
            /\ Done(inv[p]) => inv[p].err = None

===========================================================================
